---- MODULE Spec2Model ----
(***************************************************************************)
(* smart-match: the facet extraction service.                              *)
(*                                                                         *)
(* The model follows src/services/facet_parser.py (FacetResponse,          *)
(* FacetParser.parse_query, parse_query_with_metadata, _detect_categories) *)
(* and the request handlers of src/api.py (parse_query,                    *)
(* configure_facets_directly, parse_queries_batch).                        *)
(*                                                                         *)
(* JSON values are tagged tuples.  A number is held by its value in tenths *)
(* (800 is Num(8000), 2.5 is Num(25)); a number whose tenths are a         *)
(* multiple of ten is a Python int, any other a Python float.  A Python    *)
(* dict is a TLA+ function from key strings to JSON values.                *)
(***************************************************************************)
EXTENDS Integers, Sequences, FiniteSets, TLC

VARIABLES
    request,      \* the request a handler is serving, or Idle
    completion,   \* POST /parse: what self.llm(formatted_prompt) gave
    parsed,       \* POST /parse: what FacetParser.parse_query gave
    validation,   \* POST /facets/configure: the locals of the validation block
    response,     \* the response of the handler, once it is built
    calls,        \* the calls of self.llm made for the request
    items,        \* POST /parse/batch: completion and outcome of each query so far
    results,      \* POST /parse/batch: the list `results`
    workers,      \* the requests in flight when requests are served side by side
    facets_schema, \* self.facets_schema of the parser of the controller
    prompt_schema  \* the schema formatted into the prompt of the last call

vars == <<request, completion, parsed, validation, response, calls, items,
          results, workers, facets_schema, prompt_schema>>

----------------------------------------------------------------------------
(* JSON values                                                             *)

Null == <<"null">>
Str(s) == <<"str", s>>
Num(t) == <<"num", t>>
Bool(b) == <<"bool", b>>
List(q) == <<"list", q>>
Obj(f) == <<"obj", f>>
Tag(v) == v[1]

\* The empty Python dict.
EmptyDict == [k \in {} |-> Null]

\* What a validator gives when it raises.
Invalid == <<"invalid">>

\* The decimal spelling of the numbers the model uses: str(n) of a number,
\* and the strings int() and float() read back.
NumLiteral == (0 :> "0") @@ (10 :> "1") @@ (20 :> "2") @@ (25 :> "2.5") @@ (8000 :> "800")

----------------------------------------------------------------------------
(* FacetResponse: the declared fields and their types                      *)

StrFields ==
    {"brand", "model", "cat_id", "backbox_grade", "storage", "color",
     "screen_size", "memory", "processor", "processor_speed", "camera",
     "battery_capacity", "os", "keyboard_type", "keyboard_language",
     "graphic_card", "processor_type", "storage_type", "storage_ssd",
     "screen_format", "screen_type", "coffee_machine_type",
     "washing_machine_type", "fridge_type", "energy_class", "capacity",
     "power", "dishwasher_type", "oven_type", "hob_type", "console_type",
     "pegi", "video_game_genre", "warranty", "deals_type",
     "special_offer_type", "year_date_release", "generation",
     "merchant_id", "deduplication_id", "publication_state"}

FloatFields == {"price"}

DictFloatFields == {"price_ranges"}

ListStrFields == {"network", "connectivity", "compatible_gaming_console"}

BoolFields ==
    {"dual_sim", "sim_lock", "touch_bar", "touch_id", "face_id", "retina",
     "touchscreen", "webcam", "hdmi_input", "hdmi_output", "vintage",
     "limited_edition", "is_cheapest_listing", "backbox"}

IntFields == {"controllers_number"}

FacetResponseFields ==
    StrFields \cup FloatFields \cup DictFloatFields \cup ListStrFields
        \cup BoolFields \cup IntFields

----------------------------------------------------------------------------
(* The field validators of FacetResponse (pydantic), by what they do       *)

\* Optional[str]: a str is kept, a number or bool becomes its str().
str_validator(v) ==
    CASE Tag(v) = "str" -> v
      [] Tag(v) = "num" -> Str(NumLiteral[v[2]])
      [] Tag(v) = "bool" -> Str(IF v[2] THEN "True" ELSE "False")
      [] Tag(v) \in {"list", "obj", "null"} -> Invalid

\* The strings bool accepts (the model's strings are lower-case spellings).
BOOL_TRUE == {"1", "on", "t", "true", "y", "yes"}
BOOL_FALSE == {"0", "off", "f", "false", "n", "no"}

\* Optional[bool]: a bool is kept, 1/0 and the accepted words are read.
bool_validator(v) ==
    CASE Tag(v) = "bool" -> v
      [] Tag(v) = "num" ->
            IF v[2] = 10 THEN Bool(TRUE)
            ELSE IF v[2] = 0 THEN Bool(FALSE) ELSE Invalid
      [] Tag(v) = "str" ->
            IF v[2] \in BOOL_TRUE THEN Bool(TRUE)
            ELSE IF v[2] \in BOOL_FALSE THEN Bool(FALSE) ELSE Invalid
      [] Tag(v) \in {"list", "obj", "null"} -> Invalid

\* Optional[int]: an int is kept, anything else goes through int().
int_validator(v) ==
    CASE Tag(v) = "num" -> Num((v[2] \div 10) * 10)
      [] Tag(v) = "bool" -> Num(IF v[2] THEN 10 ELSE 0)
      [] Tag(v) = "str" ->
            IF \E n \in DOMAIN NumLiteral : NumLiteral[n] = v[2] /\ n % 10 = 0
            THEN Num(CHOOSE n \in DOMAIN NumLiteral : NumLiteral[n] = v[2])
            ELSE Invalid
      [] Tag(v) \in {"list", "obj", "null"} -> Invalid

\* Optional[float]: a float is kept, anything else goes through float().
float_validator(v) ==
    CASE Tag(v) = "num" -> v
      [] Tag(v) = "bool" -> Num(IF v[2] THEN 10 ELSE 0)
      [] Tag(v) = "str" ->
            IF \E n \in DOMAIN NumLiteral : NumLiteral[n] = v[2]
            THEN Num(CHOOSE n \in DOMAIN NumLiteral : NumLiteral[n] = v[2])
            ELSE Invalid
      [] Tag(v) \in {"list", "obj", "null"} -> Invalid

\* Optional[List[str]]: only a list, each element through str_validator.
list_str_validator(v) ==
    CASE Tag(v) = "list" ->
            IF \E i \in 1..Len(v[2]) : str_validator(v[2][i]) = Invalid
            THEN Invalid
            ELSE List([i \in 1..Len(v[2]) |-> str_validator(v[2][i])])
      [] Tag(v) \in {"str", "num", "bool", "obj", "null"} -> Invalid

\* Optional[Dict[str, float]]: a dict, each value through float_validator;
\* anything else goes through dict(), which accepts the empty list and the
\* empty string.  (A non-empty list is outside the model's inputs.)
dict_float_validator(v) ==
    CASE Tag(v) = "obj" ->
            IF \E k \in DOMAIN v[2] : float_validator(v[2][k]) = Invalid
            THEN Invalid
            ELSE Obj([k \in DOMAIN v[2] |-> float_validator(v[2][k])])
      [] Tag(v) = "list" /\ Len(v[2]) = 0 -> Obj(EmptyDict)
      [] Tag(v) = "str" -> IF v[2] = "" THEN Obj(EmptyDict) ELSE Invalid
      [] Tag(v) \in {"num", "bool", "null"} -> Invalid

\* One declared field: None stays None (every field is Optional).
validate_field(k, v) ==
    IF v = Null THEN Null
    ELSE CASE k \in StrFields -> str_validator(v)
           [] k \in FloatFields -> float_validator(v)
           [] k \in DictFloatFields -> dict_float_validator(v)
           [] k \in ListStrFields -> list_str_validator(v)
           [] k \in BoolFields -> bool_validator(v)
           [] k \in IntFields -> int_validator(v)

\* Mutant of validates: FacetResponse forbids the keys it does not declare.
validates_forbid_extra(d) ==
    /\ DOMAIN d \subseteq FacetResponseFields
    /\ \A k \in DOMAIN d : validate_field(k, d[k]) # Invalid

\* Whether FacetResponse.parse_obj accepts the dict: every declared field
\* that is present passes its validator.
validates(d) ==
    \A k \in DOMAIN d \cap FacetResponseFields : validate_field(k, d[k]) # Invalid

\* Mutant of parse_obj: FacetResponse keeps the keys it does not declare
\* (Config.extra = "allow").
parse_obj_keep_extra(d) ==
    [k \in FacetResponseFields \cup DOMAIN d |->
        IF k \in FacetResponseFields
        THEN IF k \in DOMAIN d THEN validate_field(k, d[k]) ELSE Null
        ELSE d[k]]

\* FacetResponse.parse_obj on a dict it accepts: undeclared keys are ignored
\* and absent fields default to None.
parse_obj(d) ==
    [k \in FacetResponseFields |->
        IF k \in DOMAIN d THEN validate_field(k, d[k]) ELSE Null]

\* Mutant of dict_exclude_none: drops every falsy value, the empty ones too.
dict_exclude_falsy(m) ==
    [k \in {x \in DOMAIN m :
                /\ m[x] # Null
                /\ ~(Tag(m[x]) = "str" /\ m[x][2] = "")
                /\ ~(Tag(m[x]) = "list" /\ Len(m[x][2]) = 0)
                /\ ~(Tag(m[x]) = "obj" /\ DOMAIN m[x][2] = {})} |-> m[k]]

\* parsed_response.dict(exclude_none=True)
dict_exclude_none(m) ==
    [k \in {x \in DOMAIN m : m[x] # Null} |-> m[k]]

----------------------------------------------------------------------------
(* The model's text: response.content                                      *)
(*                                                                         *)
(* A text is a sequence of tokens separated by white space:                *)
(*   <<"P">>     prose without braces or back-ticks ("Here you go:")       *)
(*   <<"PB">>    prose that holds braces ("{see below}"), not valid JSON   *)
(*   <<"FJ">>    the json-labeled fence  ```json                           *)
(*   <<"F">>     the generic fence       ```                               *)
(*   <<"J", v>>  the JSON document of value v                              *)

Prose == <<"P">>
ProseBraces == <<"PB">>
FenceJson == <<"FJ">>
Fence == <<"F">>
Json(v) == <<"J", v>>

Kind(tok) == tok[1]

\* The tokens whose text holds a brace.
HasBrace(tok) ==
    \/ Kind(tok) = "PB"
    \/ Kind(tok) = "J" /\ Tag(tok[2]) = "obj"

\* json.loads(s.strip()): the text must be one JSON document and nothing else.
json_loads(toks) ==
    IF Len(toks) = 1 /\ Kind(toks[1]) = "J" THEN toks[1][2] ELSE Invalid

\* re.search(r"\{.*\}", text): from the first brace of the text to the last,
\* the empty string when the text holds none.
brace_span(text) ==
    LET I == {i \in 1..Len(text) : HasBrace(text[i])}
    IN  IF I = {} THEN <<>>
        ELSE SubSeq(text, CHOOSE i \in I : \A j \in I : i <= j,
                          CHOOSE i \in I : \A j \in I : j <= i)

\* self.parser.parse(response.content): PydanticOutputParser.parse, the
\* strict layer.  It searches the text for {...}, loads it as JSON and
\* validates it as a FacetResponse.
parser_parse(text) ==
    LET json_object == json_loads(brace_span(text))
    IN  IF json_object = Invalid
        THEN [ok |-> FALSE, error |-> "JSONDecodeError"]
        ELSE IF ~validates(json_object[2])
        THEN [ok |-> FALSE, error |-> "ValidationError"]
        ELSE [ok |-> TRUE, value |-> parse_obj(json_object[2])]

\* s.split(sep)[1].split("```")[0] on tokens: what follows the first token
\* of `seps` up to the next fence of either kind.
after_first(text, seps) ==
    LET i == CHOOSE n \in 1..Len(text) :
                /\ Kind(text[n]) \in seps
                /\ \A m \in 1..(n - 1) : Kind(text[m]) \notin seps
        rest == SubSeq(text, i + 1, Len(text))
        J == {n \in 1..Len(rest) : Kind(rest[n]) \in {"F", "FJ"}}
    IN  IF J = {} THEN rest
        ELSE SubSeq(rest, 1, (CHOOSE n \in J : \A m \in J : n <= m) - 1)

\* Mutant of fenced_content: the fences are not looked for.
fenced_content_whole(text) == text

\* Lines 170-174: the text the fallback hands to json.loads.
fenced_content(text) ==
    IF \E i \in 1..Len(text) : Kind(text[i]) = "FJ"
    THEN after_first(text, {"FJ"})
    ELSE IF \E i \in 1..Len(text) : Kind(text[i]) = "F"
    THEN after_first(text, {"F"})
    ELSE text

\* Mutant of drop_none: the filter is left out.
drop_none_keeps_all(d) == d

\* Line 178: {k: v for k, v in result.items() if v is not None}
drop_none(d) ==
    [k \in {x \in DOMAIN d : d[x] # Null} |-> d[k]]

\* Mutant of fallback_parse: when the content of the json-labeled block does
\* not load, the content of the first generic block is tried as well.
fallback_parse_then_generic(text) ==
    LET Load(toks) ==
            LET result == json_loads(toks)
            IN  IF result = Invalid \/ Tag(result) # "obj"
                THEN [ok |-> FALSE]
                ELSE [ok |-> TRUE, value |-> drop_none(result[2])]
        first == Load(fenced_content(text))
    IN  IF first.ok \/ ~(\E i \in 1..Len(text) : Kind(text[i]) = "F")
        THEN first
        ELSE Load(after_first(text, {"F"}))

\* Mutant of fallback_parse: a JSON value that is no object is returned,
\* under the key "value", where .items() raises.
fallback_parse_non_object(text) ==
    LET result == json_loads(fenced_content(text))
    IN  IF result = Invalid
        THEN [ok |-> FALSE]
        ELSE IF Tag(result) # "obj"
        THEN [ok |-> TRUE, value |-> [k \in {"value"} |-> result]]
        ELSE [ok |-> TRUE, value |-> drop_none(result[2])]

\* Lines 168-180: the fallback layer.  json.loads of a text that is no JSON
\* raises, and so does .items() of a value that is no dict.
fallback_parse(text) ==
    LET result == json_loads(fenced_content(text))
    IN  IF result = Invalid \/ Tag(result) # "obj"
        THEN [ok |-> FALSE]
        ELSE [ok |-> TRUE, value |-> drop_none(result[2])]

\* Mutant of interpret: a content no layer can read gives the empty mapping.
interpret_empty_on_failure(text) ==
    LET strict == parser_parse(text)
    IN  IF strict.ok
        THEN [status |-> "returned", layer |-> "strict",
              facets |-> dict_exclude_none(strict.value)]
        ELSE LET fb == fallback_parse(text)
             IN  [status |-> "returned", layer |-> "fallback",
                  facets |-> IF fb.ok THEN fb.value ELSE EmptyDict]

\* Mutant of interpret: the parser keeps the facets of the last content it
\* could read and gives them again when the strict layer fails.
interpret_remembering(text) ==
    LET strict == parser_parse(text)
        earlier == {i \in 1..Len(items) : items[i].parsed.status = "returned"}
    IN  IF strict.ok
        THEN [status |-> "returned", layer |-> "strict",
              facets |-> dict_exclude_none(strict.value)]
        ELSE IF earlier # {}
        THEN [status |-> "returned", layer |-> "fallback",
              facets |-> items[CHOOSE i \in earlier : \A j \in earlier : j <= i].parsed.facets]
        ELSE LET fb == fallback_parse(text)
             IN  IF fb.ok
                 THEN [status |-> "returned", layer |-> "fallback",
                       facets |-> fb.value]
                 ELSE [status |-> "raised", type |-> "ValueError",
                       raw |-> text, reason |-> strict.error]

\* Lines 161-180 of FacetParser.parse_query: what it does with the content
\* of the completion.
interpret(text) ==
    LET strict == parser_parse(text)
    IN  IF strict.ok
        THEN [status |-> "returned", layer |-> "strict",
              facets |-> dict_exclude_none(strict.value)]
        ELSE LET fb == fallback_parse(text)
             IN  IF fb.ok
                 THEN [status |-> "returned", layer |-> "fallback",
                       facets |-> fb.value]
                 ELSE [status |-> "raised", type |-> "ValueError",
                       raw |-> text, reason |-> strict.error]

----------------------------------------------------------------------------
(* FacetParser.parse_query_with_metadata and _detect_categories            *)

mobile_fields ==
    {"storage", "color", "screen_size", "network", "camera", "os",
     "battery_capacity"}
computing_fields == {"graphic_card", "processor_type", "storage_ssd", "touchscreen"}
appliance_fields ==
    {"energy_class", "capacity", "coffee_machine_type", "washing_machine_type"}
gaming_fields == {"console_type", "pegi", "video_game_genre", "controllers_number"}

\* any(field in facets for field in fields)
any_in(fields, facets) == \E field \in fields : field \in DOMAIN facets

\* Mutant of detect_categories: the tests are chained with elif, so only the
\* first category that matches is listed.
detect_categories_first(facets) ==
    IF any_in(mobile_fields, facets) THEN <<"mobile_electronics">>
    ELSE IF any_in(computing_fields, facets) THEN <<"computing">>
    ELSE IF any_in(appliance_fields, facets) THEN <<"home_appliances">>
    ELSE IF any_in(gaming_fields, facets) THEN <<"gaming">>
    ELSE <<"general">>

\* FacetParser._detect_categories: the list it returns.
detect_categories(facets) ==
    LET categories ==
            (IF any_in(mobile_fields, facets) THEN <<"mobile_electronics">> ELSE <<>>)
         \o (IF any_in(computing_fields, facets) THEN <<"computing">> ELSE <<>>)
         \o (IF any_in(appliance_fields, facets) THEN <<"home_appliances">> ELSE <<>>)
         \o (IF any_in(gaming_fields, facets) THEN <<"gaming">> ELSE <<>>)
    IN  IF categories # <<>> THEN categories ELSE <<"general">>

\* Mutant of with_metadata: a categories_detected key among the facets is
\* taken as the categories.
with_metadata_supplied(user_query, facets) ==
    [query |-> user_query,
     facets |-> facets,
     facet_count |-> Cardinality(DOMAIN facets),
     categories_detected |->
        IF "categories_detected" \in DOMAIN facets
        THEN [i \in 1..Len(facets["categories_detected"][2]) |->
                facets["categories_detected"][2][i][2]]
        ELSE detect_categories(facets)]

\* Mutant of with_metadata: facet_count counts the facets whose value is not
\* empty.
with_metadata_count_filled(user_query, facets) ==
    [query |-> user_query,
     facets |-> facets,
     facet_count |->
        Cardinality({k \in DOMAIN facets :
                        facets[k] \notin {<<"str", "">>, <<"list", <<>>>>}}),
     categories_detected |-> detect_categories(facets)]

\* The dict parse_query_with_metadata returns for the facets parse_query gave.
with_metadata(user_query, facets) ==
    [query |-> user_query,
     facets |-> facets,
     facet_count |-> Cardinality(DOMAIN facets),
     categories_detected |-> detect_categories(facets)]

----------------------------------------------------------------------------
(* The handlers of src/api.py                                              *)
(*                                                                         *)
(* A response is a record holding its HTTP status and the fields of its    *)
(* body; a field the code sets to None is left out of the record.          *)

\* str(e) of the ValueError parse_query raises: it quotes the content of the
\* completion and the error of the strict layer.
error_text(p) == [type |-> p.type, raw |-> p.raw, reason |-> p.reason]

\* Mutant of parse_response: the classification fails on a mapping that
\* holds no facet.
parse_response_meta_fails(q, meta, p) ==
    IF p.status = "raised"
    THEN [status |-> 500, detail |-> error_text(p)]
    ELSE IF meta /\ DOMAIN p.facets = {}
    THEN [status |-> 500,
          detail |-> [type |-> "IndexError", raw |-> <<>>, reason |-> "IndexError"]]
    ELSE IF meta
    THEN [status |-> 200, success |-> TRUE] @@ with_metadata(q, p.facets)
    ELSE [status |-> 200, success |-> TRUE, facets |-> p.facets, query |-> q]

\* parse_query (POST /parse) once the completion has returned `text`.
parse_response(q, meta, p) ==
    IF p.status = "raised"
    THEN [status |-> 500, detail |-> error_text(p)]
    ELSE IF meta
    THEN [status |-> 200, success |-> TRUE] @@ with_metadata(q, p.facets)
    ELSE [status |-> 200, success |-> TRUE, facets |-> p.facets, query |-> q]

\* Mutant of completion_failure: the error of the backend is caught and an
\* empty facets mapping is returned in its place.
completion_failure_hidden(e) ==
    [status |-> "returned", layer |-> "none", facets |-> EmptyDict]

\* Line 158 of FacetParser.parse_query stands before the try: what
\* self.llm raises leaves parse_query as it is, and lines 161-180 do not run.
completion_failure(e) ==
    [status |-> "raised", type |-> e, raw |-> <<>>, reason |-> e]

\* FacetParser.parse_query from line 158 on, `c` being what self.llm gives.
parse_query_outcome(c) ==
    IF c.status = "raised" THEN completion_failure(c.type)
    ELSE interpret(c.content)

\* Mutant of batch_result: a query that failed leaves no entry in the list.
batch_result_skip_failed(results_so_far, query, meta, p) ==
    IF p.status = "raised"
    THEN results_so_far
    ELSE IF meta
    THEN Append(results_so_far, [success |-> TRUE] @@ with_metadata(query, p.facets))
    ELSE Append(results_so_far, [success |-> TRUE, query |-> query, facets |-> p.facets])

\* Lines 841-861 of parse_queries_batch: one turn of the loop, `p` being what
\* the controller gave for `query`; the list `results` after the turn.
batch_result(results_so_far, query, meta, p) ==
    IF p.status = "raised"
    THEN Append(results_so_far,
                [success |-> FALSE, query |-> query, error |-> error_text(p)])
    ELSE IF meta
    THEN Append(results_so_far, [success |-> TRUE] @@ with_metadata(query, p.facets))
    ELSE Append(results_so_far, [success |-> TRUE, query |-> query, facets |-> p.facets])

\* Lines 863-867: the BatchResponse.
batch_response(queries, results_list) ==
    [status |-> 200, success |-> TRUE, total |-> Len(queries),
     results |-> results_list]

\* A facets schema document, as json.load gives it: `facets` is the list
\* under the key 'facets' (has_facets tells whether the key is there), each
\* element a facet_config with or without a 'key'.
KeyConfig(k) == [has_key |-> TRUE, key |-> k]
NoKeyConfig == [has_key |-> FALSE]

\* Mutant of all_valid_keys: a schema with a definition that has no 'key' is
\* refused as a whole and declares nothing.
all_valid_keys_refuse_keyless(schema) ==
    IF schema.has_facets /\ \A j \in 1..Len(schema.facets) : schema.facets[j].has_key
    THEN {schema.facets[i].key : i \in 1..Len(schema.facets)}
    ELSE {}

\* Lines 622-626: the keys the schema declares.
all_valid_keys(schema) ==
    IF schema.has_facets
    THEN {schema.facets[i].key :
            i \in {j \in 1..Len(schema.facets) : schema.facets[j].has_key}}
    ELSE {}

\* f"Unknown facet key: '{facet_key}'"
unknown_key_error(facet_key) == [text |-> "Unknown facet key", key |-> facet_key]

\* Mutant of classify: the key is not looked up in the schema.
classify_all_valid(keys, valid) ==
    [valid_facets |-> keys, invalid_facets |-> <<>>, validation_errors |-> <<>>]

\* Lines 629-634: the loop over facets.keys(), in the order of the keys.
RECURSIVE classify(_, _)
classify(keys, valid) ==
    IF keys = <<>>
    THEN [valid_facets |-> <<>>, invalid_facets |-> <<>>, validation_errors |-> <<>>]
    ELSE LET rest == classify(Tail(keys), valid)
             facet_key == Head(keys)
         IN  IF facet_key \in valid
             THEN [rest EXCEPT !.valid_facets = <<facet_key>> \o @]
             ELSE [rest EXCEPT !.invalid_facets = <<facet_key>> \o @,
                               !.validation_errors = <<unknown_key_error(facet_key)>> \o @]

\* Mutant of validate_facets: the keys are checked whether or not the request
\* asks for validation.
validate_facets_always(facets, validate_schema, file) ==
    LET none == [valid_facets |-> <<>>, invalid_facets |-> <<>>,
                 validation_errors |-> <<>>]
    IN  CASE file.state = "missing" ->
                [none EXCEPT !.validation_errors =
                    <<[text |-> "Facets schema file not found"]>>]
          [] file.state = "unreadable" ->
                [none EXCEPT !.validation_errors =
                    <<[text |-> "Schema validation error"]>>]
          [] file.state = "loaded" ->
                classify(facets.keys, all_valid_keys(file.schema))

\* Mutant of validate_facets: a missing schema file is passed over in silence.
validate_facets_silent(facets, validate_schema, file) ==
    LET none == [valid_facets |-> <<>>, invalid_facets |-> <<>>,
                 validation_errors |-> <<>>]
    IN  IF ~validate_schema \/ file.state = "missing" THEN none
        ELSE CASE file.state = "unreadable" ->
                    [none EXCEPT !.validation_errors =
                        <<[text |-> "Schema validation error"]>>]
               [] file.state = "loaded" ->
                    classify(facets.keys, all_valid_keys(file.schema))

\* Lines 608-643: the locals of configure_facets_directly after the
\* validation block.  `file` is what open() and json.load find.
validate_facets(facets, validate_schema, file) ==
    LET none == [valid_facets |-> <<>>, invalid_facets |-> <<>>,
                 validation_errors |-> <<>>]
    IN  IF ~validate_schema THEN none
        ELSE CASE file.state = "missing" ->
                    [none EXCEPT !.validation_errors =
                        <<[text |-> "Facets schema file not found"]>>]
               [] file.state = "unreadable" ->
                    [none EXCEPT !.validation_errors =
                        <<[text |-> "Schema validation error"]>>]
               [] file.state = "loaded" ->
                    classify(facets.keys, all_valid_keys(file.schema))

\* FacetParser._load_facets_schema as __init__ calls it: json.load of the
\* file, unchecked; open() or json.load raising ends the construction.
load_facets_schema(file) ==
    IF file.state = "loaded"
    THEN [status |-> "loaded", schema |-> file.schema]
    ELSE [status |-> "failed"]

\* Mutant of schema_response: the schema the parser loaded is served, the
\* file is not opened.
schema_response_loaded(file) ==
    [status |-> 200, success |-> TRUE, schema |-> facets_schema.schema]

\* get_facets_schema, lines 704-717: the file is opened and loaded on each
\* request.
schema_response(file) ==
    IF file.state = "loaded"
    THEN [status |-> 200, success |-> TRUE, schema |-> file.schema]
    ELSE [status |-> 500, detail |-> [text |-> "Failed to load facets schema"]]

\* Mutant of configure_response: invalid keys are reported, not refused.
configure_response_no_reject(facets, validate_schema, v) ==
    [status |-> 200, success |-> TRUE, facets |-> facets,
     facet_count |-> Len(facets.keys)]
    @@ (IF v.validation_errors # <<>>
        THEN [validation_errors |-> v.validation_errors] ELSE <<>>)
    @@ (IF validate_schema
        THEN [valid_facets |-> v.valid_facets,
              invalid_facets |-> v.invalid_facets]
        ELSE <<>>)

\* Mutant of configure_response: the facets are cleaned of their null values
\* before they are returned.
configure_response_cleaned(facets, validate_schema, v) ==
    LET NotNull(k) == facets.vals[k] # Null
        cleaned == [keys |-> SelectSeq(facets.keys, NotNull),
                    vals |-> [k \in {x \in DOMAIN facets.vals : NotNull(x)} |->
                                facets.vals[k]]]
    IN  IF validate_schema /\ v.invalid_facets # <<>>
        THEN [status |-> 400,
              detail |-> [error |-> "Invalid facet configuration",
                          invalid_facets |-> v.invalid_facets,
                          validation_errors |-> v.validation_errors]]
        ELSE [status |-> 200, success |-> TRUE, facets |-> cleaned,
              facet_count |-> Len(cleaned.keys)]
             @@ (IF v.validation_errors # <<>>
                 THEN [validation_errors |-> v.validation_errors] ELSE <<>>)
             @@ (IF validate_schema
                 THEN [valid_facets |-> v.valid_facets,
                       invalid_facets |-> v.invalid_facets]
                 ELSE <<>>)

\* Lines 645-663: the 400 error, or the DirectFacetsResponse.
configure_response(facets, validate_schema, v) ==
    IF validate_schema /\ v.invalid_facets # <<>>
    THEN [status |-> 400,
          detail |-> [error |-> "Invalid facet configuration",
                      invalid_facets |-> v.invalid_facets,
                      validation_errors |-> v.validation_errors]]
    ELSE [status |-> 200, success |-> TRUE, facets |-> facets,
          facet_count |-> Len(facets.keys)]
         @@ (IF v.validation_errors # <<>>
             THEN [validation_errors |-> v.validation_errors] ELSE <<>>)
         @@ (IF validate_schema
             THEN [valid_facets |-> v.valid_facets,
                   invalid_facets |-> v.invalid_facets]
             ELSE <<>>)

----------------------------------------------------------------------------
(* Bounds and the inputs drawn within them                                 *)

\* The most keys of a JSON object in a completion, and of a facets mapping
\* submitted directly.
MaxKeys == 2
\* The most a completion holds: its tokens plus the keys of its document.
MaxLen == 6
\* The most facet definitions of a schema document.
MaxSchema == 3

Queries == {"iPhone 13 under $800"}

\* The keys completions use: one or more of each declared type, of each
\* category of _detect_categories, and one key FacetResponse does not declare.
FacetKeys ==
    {"brand", "network", "webcam", "controllers_number", "price_ranges",
     "graphic_card", "energy_class", "foo"}

\* The values a completion gives a key: well typed, empty, null, mistyped.
Candidates(k) ==
    CASE k = "brand" -> {Str("Apple"), Str(""), Null}
      [] k = "network" -> {List(<<Str("5G")>>), List(<<>>), Str("5G")}
      [] k = "webcam" -> {Bool(TRUE), Str("maybe")}
      [] k = "controllers_number" -> {Num(20), Str("2"), Str("two")}
      [] k = "price_ranges" -> {Obj([x \in {"max"} |-> Num(8000)]), Obj(EmptyDict)}
      [] k = "graphic_card" -> {Str("RTX 3060")}
      [] k = "energy_class" -> {Str("A++")}
      [] k = "foo" -> {Str("x"), Null}

\* The JSON objects of exactly n keys.
Objects(n) ==
    UNION {{f \in [S -> UNION {Candidates(k) : k \in S}] :
                \A k \in S : f[k] \in Candidates(k)} :
            S \in {T \in SUBSET FacetKeys : Cardinality(T) = n}}

\* JSON documents that are no object.
NonObjects == {Null, List(<<>>), Str("Apple"), Num(20), Bool(TRUE)}

\* The JSON documents, by the number of their keys.
Documents ==
    [n \in 0..MaxKeys |->
        {Obj(f) : f \in Objects(n)} \cup (IF n = 0 THEN NonObjects ELSE {})]

IsProse(tok) == Kind(tok) \in {"P", "PB"}

\* Token sequences of exactly n wrapper tokens.
RECURSIVE Wrappers(_)
Wrappers(n) ==
    IF n = 0 THEN {<<>>}
    ELSE {Append(w, t) :
            w \in Wrappers(n - 1),
            t \in {Prose, ProseBraces, FenceJson, Fence}}

\* Two proses in a row are one prose.
WellFormed(w) ==
    \A i \in 1..(Len(w) - 1) : ~(IsProse(w[i]) /\ IsProse(w[i + 1]))

\* The wrapper texts, by the number of their tokens.
WrapperTexts == [n \in 0..MaxLen |-> {w \in Wrappers(n) : WellFormed(w)}]

\* The errors of the completion backend.
CompletionErrors == {"AuthenticationError", "RateLimitError"}

\* The most queries of a batch.
MaxBatch == 3

\* The queries of a batch: one to MaxBatch of them (min_items=1).
BatchQueryPool == {"iPhone 13 under $800", "gaming laptop with RTX 3060"}

RECURSIVE QueryLists(_)
QueryLists(n) ==
    IF n = 0 THEN {<<>>}
    ELSE LET L == QueryLists(n - 1)
         IN  L \cup {Append(qs, q) : qs \in {x \in L : Len(x) = n - 1},
                                     q \in BatchQueryPool}

BatchQueries == QueryLists(MaxBatch) \ {<<>>}

\* What the backend gives for a query of a batch: it raises, or it returns
\* one of a few contents: a bare object, the same keys in a fenced block
\* after prose, prose alone, and objects that hold a key named as the
\* metadata field categories_detected.
BatchContents ==
    {<<Json(Obj([k \in {"brand"} |-> Str("Apple")]))>>,
     <<Json(Obj([k \in {"graphic_card"} |-> Str("RTX 3060")]))>>,
     <<ProseBraces, FenceJson,
       Json(Obj([k \in {"graphic_card"} |-> Str("GTX 1650")])), Fence>>,
     <<Prose>>,
     <<ProseBraces, Fence,
       Json(Obj([k \in {"categories_detected"} |-> List(<<Str("gaming")>>)])), Fence>>,
     <<ProseBraces, Fence,
       Json(Obj([k \in {"categories_detected"} |-> List(<<Str("computing")>>)])), Fence>>}

BatchCompletions ==
    {[status |-> "returned", content |-> text] : text \in BatchContents}
    \cup {[status |-> "raised", type |-> e] : e \in CompletionErrors}

\* The schema document the service is started on.
ShippedSchemaFile ==
    [state |-> "loaded",
     schema |-> [has_facets |-> TRUE,
                 facets |-> <<KeyConfig("brand"), KeyConfig("model"),
                              KeyConfig("storage")>>]]

\* The requests served side by side.
Workers == {1, 2}

\* The most queries of a batch served beside another request.
MaxSideBatch == 2

\* What the backend gives a request served beside another.
SideCompletions ==
    {[status |-> "returned", content |-> text] :
        text \in {<<Json(Obj([k \in {"brand"} |-> Str("Apple")]))>>,
                  <<ProseBraces, FenceJson,
                    Json(Obj([k \in {"graphic_card"} |-> Str("RTX 3060")])), Fence>>,
                  <<Prose>>}}
    \cup {[status |-> "raised", type |-> "RateLimitError"]}

\* The facets and the schema files of a direct configuration served beside
\* another request.
SideFacets ==
    {[keys |-> <<"brand">>, vals |-> [k \in {"brand"} |-> Str("Apple")]],
     [keys |-> <<"brand", "color">>,
      vals |-> [k \in {"brand", "color"} |->
                    IF k = "brand" THEN Str("Apple") ELSE Str("blue")]]}

SideFiles ==
    {[state |-> "missing"],
     [state |-> "loaded",
      schema |-> [has_facets |-> TRUE,
                  facets |-> <<KeyConfig("brand"), KeyConfig("model")>>]],
     [state |-> "loaded",
      schema |-> [has_facets |-> TRUE,
                  facets |-> <<KeyConfig("brand"), KeyConfig("color")>>]]}

\* The requests served side by side: single parse, parse with metadata,
\* batch, direct configuration.
SideRequests ==
    {[op |-> "parse", query |-> q, include_metadata |-> meta] :
        q \in Queries, meta \in BOOLEAN}
    \cup {[op |-> "batch", queries |-> [i \in 1..n |-> q], include_metadata |-> meta] :
            n \in 1..MaxSideBatch, q \in Queries, meta \in BOOLEAN}
    \cup {[op |-> "configure", facets |-> f, validate_schema |-> v] :
            f \in SideFacets, v \in BOOLEAN}

\* Facets submitted directly: the keys in the order of the request body.
DirectKeys == {"brand", "color", "storage"}
DirectValues == {Str("Apple"), Str("blue"), Null, Str("")}

RECURSIVE KeyOrders(_)
KeyOrders(n) ==
    IF n = 0 THEN {<<>>}
    ELSE LET K == KeyOrders(n - 1)
         IN  K \cup {Append(ks, k) :
                        ks \in {x \in K : Len(x) = n - 1}, k \in DirectKeys}

DirectFacets ==
    UNION {{[keys |-> ks, vals |-> f] :
                f \in [{ks[i] : i \in 1..Len(ks)} -> DirectValues]} :
            ks \in {x \in KeyOrders(MaxKeys) :
                        \A i, j \in 1..Len(x) : i # j => x[i] # x[j]}}

\* The schema documents facets_config.json can hold.
SchemaKeys == {"brand", "model", "storage"}

RECURSIVE ConfigLists(_)
ConfigLists(n) ==
    IF n = 0 THEN {<<>>}
    ELSE LET C == ConfigLists(n - 1)
         IN  C \cup {Append(cs, c) :
                        cs \in {x \in C : Len(x) = n - 1},
                        c \in {KeyConfig(k) : k \in SchemaKeys} \cup {NoKeyConfig}}

\* What open(cfg.FACETS_CONFIG_PATH) and json.load find.
SchemaFiles ==
    {[state |-> "missing"], [state |-> "unreadable"],
     [state |-> "loaded", schema |-> [has_facets |-> FALSE]]}
    \cup {[state |-> "loaded", schema |-> [has_facets |-> TRUE, facets |-> cs]] :
            cs \in ConfigLists(MaxSchema)}

----------------------------------------------------------------------------
(* State and actions                                                       *)

Idle == [op |-> "idle"]
NoValue == [status |-> "none"]

Init ==
    /\ request = Idle
    /\ completion = NoValue
    /\ parsed = NoValue
    /\ validation = NoValue
    /\ response = NoValue
    /\ calls = 0
    /\ items = <<>>
    /\ results = <<>>
    /\ workers = [w \in Workers |-> Idle]
    /\ facets_schema = load_facets_schema(ShippedSchemaFile)
    /\ prompt_schema = NoValue

\* POST /parse, the completion returns `text`.
ParseQuery(q, meta, text) ==
    /\ request = Idle
    /\ request' = [op |-> "parse", query |-> q, include_metadata |-> meta]
    /\ completion' = [status |-> "returned", content |-> text]
    /\ parsed' = interpret(text)
    /\ response' = parse_response(q, meta, parsed')
    /\ calls' = 1
    /\ prompt_schema' = facets_schema.schema
    /\ UNCHANGED <<validation, items, results, workers, facets_schema>>

\* POST /parse, the completion raises: line 158 is outside the try.
ParseQueryNoCompletion(q, meta, e) ==
    /\ request = Idle
    /\ request' = [op |-> "parse", query |-> q, include_metadata |-> meta]
    /\ completion' = [status |-> "raised", type |-> e]
    /\ parsed' = completion_failure(e)
    /\ response' = parse_response(q, meta, parsed')
    /\ calls' = 1
    /\ prompt_schema' = facets_schema.schema
    /\ UNCHANGED <<validation, items, results, workers, facets_schema>>

\* POST /facets/configure
ConfigureFacetsDirectly(facets, validate_schema, file) ==
    /\ request = Idle
    /\ request' = [op |-> "configure", facets |-> facets,
                   validate_schema |-> validate_schema]
    /\ validation' =
            [status |-> "done",
             file |-> IF validate_schema THEN file ELSE [state |-> "unread"]]
            @@ validate_facets(facets, validate_schema, file)
    /\ response' = configure_response(facets, validate_schema, validation')
    /\ UNCHANGED <<completion, parsed, calls, items, results, workers,
                   facets_schema, prompt_schema>>

\* GET /facets/schema
GetFacetsSchema(file) ==
    /\ request = Idle
    /\ request' = [op |-> "schema"]
    /\ validation' = [status |-> "done", file |-> file]
    /\ response' = schema_response(file)
    /\ UNCHANGED <<completion, parsed, calls, items, results, workers,
                   facets_schema, prompt_schema>>

\* POST /parse/batch: line 839, the loop is about to start.
ParseQueriesBatch(queries, meta) ==
    /\ request = Idle
    /\ request' = [op |-> "batch", queries |-> queries, include_metadata |-> meta]
    /\ results' = <<>>
    /\ UNCHANGED <<completion, parsed, validation, response, calls, items, workers,
                   facets_schema, prompt_schema>>

\* One turn of the loop of lines 840-861: the query is handed to the
\* controller, the completion is `c`, and the result or the error is appended.
BatchItem(c) ==
    /\ request # Idle
    /\ request.op = "batch"
    /\ response = NoValue
    /\ Len(results) < Len(request.queries)
    /\ LET query == request.queries[Len(results) + 1]
           p == parse_query_outcome(c)
       IN  /\ results' = batch_result(results, query, request.include_metadata, p)
           /\ items' = Append(items, [query |-> query, completion |-> c, parsed |-> p])
    /\ calls' = calls + 1
    /\ prompt_schema' = facets_schema.schema
    /\ UNCHANGED <<request, completion, parsed, validation, response, workers,
                   facets_schema>>

\* Lines 863-867: the loop is over, the BatchResponse is returned.
BatchReturn ==
    /\ request # Idle
    /\ request.op = "batch"
    /\ response = NoValue
    /\ Len(results) = Len(request.queries)
    /\ response' = batch_response(request.queries, results)
    /\ UNCHANGED <<request, completion, parsed, validation, calls, items,
                   results, workers, facets_schema, prompt_schema>>

\* The response is sent; the next request starts from nothing.
Finish ==
    /\ request # Idle
    /\ response # NoValue
    /\ request' = Idle
    /\ completion' = NoValue
    /\ parsed' = NoValue
    /\ validation' = NoValue
    /\ response' = NoValue
    /\ calls' = 0
    /\ items' = <<>>
    /\ results' = <<>>
    /\ prompt_schema' = NoValue
    /\ UNCHANGED <<workers, facets_schema>>

\* The contents a completion can have: wrapper text alone, or one JSON
\* document with wrapper text before and after it, of at most MaxLen tokens
\* and keys in all.
ParseAnyText(q, meta) ==
    \/ \E n \in 0..MaxLen : \E w \in WrapperTexts[n] : ParseQuery(q, meta, w)
    \/ \E n \in 0..MaxKeys : \E d \in Documents[n] :
        \E i \in 0..(MaxLen - 1 - n) : \E j \in 0..(MaxLen - 1 - n - i) :
            \E before \in WrapperTexts[i], after \in WrapperTexts[j] :
                ParseQuery(q, meta, before \o <<Json(d)>> \o after)

\* A handler runs from start to end before the next request is taken up.
Next ==
    \/ /\ request = Idle
       /\ \E q \in Queries, meta \in BOOLEAN : ParseAnyText(q, meta)
    \/ /\ request = Idle
       /\ \E q \in Queries, meta \in BOOLEAN, e \in CompletionErrors :
            ParseQueryNoCompletion(q, meta, e)
    \/ /\ request = Idle
       /\ \E facets \in DirectFacets, validate_schema \in BOOLEAN, file \in SchemaFiles :
            ConfigureFacetsDirectly(facets, validate_schema, file)
    \/ /\ request = Idle
       /\ \E file \in SchemaFiles : GetFacetsSchema(file)
    \/ /\ request = Idle
       /\ \E queries \in BatchQueries, meta \in BOOLEAN : ParseQueriesBatch(queries, meta)
    \/ \E c \in BatchCompletions : BatchItem(c)
    \/ BatchReturn
    \/ Finish

Spec == Init /\ [][Next]_vars

\* A turn of the batch loop, or its return: the handler runs on once the
\* call of the controller has returned or raised.
BatchStep == (\E c \in BatchCompletions : BatchItem(c)) \/ BatchReturn

\* The batch requests of the service, one after the other.
BatchNext ==
    \/ /\ request = Idle
       /\ \E queries \in BatchQueries, meta \in BOOLEAN : ParseQueriesBatch(queries, meta)
    \/ \E c \in BatchCompletions : BatchItem(c)
    \/ BatchReturn
    \/ Finish

\* Batches under the scheduling of a handler that has started: its loop goes
\* on to the next query and to the return.
BatchSpec == Init /\ [][BatchNext]_vars /\ WF_vars(BatchStep)

----------------------------------------------------------------------------
(* The service from its start                                              *)

\* Before `controller = Controller()` has run.
Boot ==
    /\ request = Idle
    /\ completion = NoValue
    /\ parsed = NoValue
    /\ validation = NoValue
    /\ response = NoValue
    /\ calls = 0
    /\ items = <<>>
    /\ results = <<>>
    /\ workers = [w \in Workers |-> Idle]
    /\ facets_schema = [status |-> "unset"]
    /\ prompt_schema = NoValue

\* controller = Controller(): FacetParser.__init__ loads the schema; when
\* the load raises, the import of api.py fails and no request is served.
LoadFacetsSchema(file) ==
    /\ facets_schema.status = "unset"
    /\ facets_schema' = load_facets_schema(file)
    /\ UNCHANGED <<request, completion, parsed, validation, response, calls,
                   items, results, workers, prompt_schema>>

\* Requests are taken once the module has been imported.
Serving == facets_schema.status = "loaded" /\ request = Idle

\* The schema file at the start and at each later read: it may have been
\* replaced, removed or damaged in between.
StartFiles == SideFiles \cup {[state |-> "unreadable"]}

SchemaNext ==
    \/ \E file \in StartFiles : LoadFacetsSchema(file)
    \/ /\ Serving
       /\ \E q \in Queries, meta \in BOOLEAN, c \in SideCompletions :
            /\ c.status = "returned"
            /\ ParseQuery(q, meta, c.content)
    \/ /\ Serving
       /\ \E q \in Queries, meta \in BOOLEAN, e \in CompletionErrors :
            ParseQueryNoCompletion(q, meta, e)
    \/ /\ Serving
       /\ \E facets \in SideFacets, validate_schema \in BOOLEAN, file \in StartFiles :
            ConfigureFacetsDirectly(facets, validate_schema, file)
    \/ /\ Serving
       /\ \E file \in StartFiles : GetFacetsSchema(file)
    \/ /\ Serving
       /\ \E queries \in BatchQueries, meta \in BOOLEAN : ParseQueriesBatch(queries, meta)
    \/ \E c \in BatchCompletions : BatchItem(c)
    \/ BatchReturn
    \/ Finish

SchemaSpec == Boot /\ [][SchemaNext]_vars

----------------------------------------------------------------------------
(* Requests served side by side                                            *)
(*                                                                         *)
(* Each request in flight has the locals of its handler: the request, the  *)
(* completions its calls of self.llm have given, the list `results` of a   *)
(* batch, the schema file it read, its response.  The module-level         *)
(* controller holds nothing a handler writes.  A handler is cut into steps *)
(* at the calls that leave the process: the call of the backend, the read  *)
(* of the schema file.                                                     *)

\* The state of the one-at-a-time service.
serial == <<request, completion, parsed, validation, response, calls, items,
            results, facets_schema, prompt_schema>>

Started(req) ==
    [req |-> req, completions |-> <<>>, results |-> <<>>, file |-> NoValue,
     response |-> NoValue]

\* Mutant of llm_response: the completion is kept on the shared parser, where
\* the call of another request overwrites it.
llm_response_shared(ws, w) ==
    LET holders == {v \in Workers : ws[v] # Idle /\ ws[v].completions # <<>>}
        v == CHOOSE x \in holders : \A y \in holders : x <= y
    IN  ws[v].completions[Len(ws[v].completions)]

\* Line 158: `response` is a local of the call of parse_query of worker w.
llm_response(ws, w) == ws[w].completions[Len(ws[w].completions)]

\* A handler starts on a request.
WorkerStart(w, req) ==
    /\ UNCHANGED serial
    /\ workers[w] = Idle
    /\ workers' = [workers EXCEPT ![w] = Started(req)]

\* The call of self.llm of worker w returns or raises `c`.
WorkerCompletion(w, c) ==
    /\ UNCHANGED serial
    /\ workers[w] # Idle
    /\ workers[w].response = NoValue
    /\ \/ /\ workers[w].req.op = "parse"
          /\ workers[w].completions = <<>>
       \/ /\ workers[w].req.op = "batch"
          /\ Len(workers[w].completions) = Len(workers[w].results)
          /\ Len(workers[w].results) < Len(workers[w].req.queries)
    /\ workers' = [workers EXCEPT ![w].completions = Append(@, c)]

\* Worker w goes on after the call: parse_query interprets the completion;
\* POST /parse builds its response, a batch appends to `results`.
WorkerInterpret(w) ==
    /\ UNCHANGED serial
    /\ workers[w] # Idle
    /\ workers[w].response = NoValue
    /\ LET me == workers[w]
           p == parse_query_outcome(llm_response(workers, w))
       IN  \/ /\ me.req.op = "parse"
              /\ me.completions # <<>>
              /\ workers' = [workers EXCEPT ![w].response =
                    parse_response(me.req.query, me.req.include_metadata, p)]
           \/ /\ me.req.op = "batch"
              /\ Len(me.completions) = Len(me.results) + 1
              /\ workers' = [workers EXCEPT ![w].results =
                    batch_result(me.results, me.req.queries[Len(me.results) + 1],
                                 me.req.include_metadata, p)]

\* The loop of the batch of worker w is over.
WorkerBatchReturn(w) ==
    /\ UNCHANGED serial
    /\ workers[w] # Idle
    /\ workers[w].req.op = "batch"
    /\ workers[w].response = NoValue
    /\ Len(workers[w].results) = Len(workers[w].req.queries)
    /\ workers' = [workers EXCEPT ![w].response =
            batch_response(workers[w].req.queries, workers[w].results)]

\* POST /facets/configure of worker w opens the schema file, if it validates.
WorkerReadSchema(w, file) ==
    /\ UNCHANGED serial
    /\ workers[w] # Idle
    /\ workers[w].req.op = "configure"
    /\ workers[w].file = NoValue
    /\ workers' = [workers EXCEPT ![w].file =
            IF workers[w].req.validate_schema THEN file ELSE [state |-> "unread"]]

\* POST /facets/configure of worker w classifies the keys and responds.
WorkerConfigure(w) ==
    /\ UNCHANGED serial
    /\ workers[w] # Idle
    /\ workers[w].req.op = "configure"
    /\ workers[w].file # NoValue
    /\ workers[w].response = NoValue
    /\ LET me == workers[w]
           v == validate_facets(me.req.facets, me.req.validate_schema, me.file)
       IN  workers' = [workers EXCEPT ![w].response =
                configure_response(me.req.facets, me.req.validate_schema, v)]

\* The response of worker w is sent.
WorkerFinish(w) ==
    /\ UNCHANGED serial
    /\ workers[w] # Idle
    /\ workers[w].response # NoValue
    /\ workers' = [workers EXCEPT ![w] = Idle]

SideBySideNext ==
    \/ \E w \in Workers, req \in SideRequests : WorkerStart(w, req)
    \/ \E w \in Workers, c \in SideCompletions : WorkerCompletion(w, c)
    \/ \E w \in Workers : WorkerInterpret(w)
    \/ \E w \in Workers : WorkerBatchReturn(w)
    \/ \E w \in Workers, file \in SideFiles : WorkerReadSchema(w, file)
    \/ \E w \in Workers : WorkerConfigure(w)
    \/ \E w \in Workers : WorkerFinish(w)

SideBySideSpec == Init /\ [][SideBySideNext]_vars

----------------------------------------------------------------------------
(* Properties                                                              *)

\* The interpreter ran on a completion and returned a facets mapping.
ParseReturned == request.op = "parse" /\ parsed.status = "returned"

\* The interpreter ran on a completion: the completion did not raise.
Interpreted == request.op = "parse" /\ completion.status = "returned"

\* The JSON documents of a text (the model's texts hold at most one).
DocsOf(text) == {text[i][2] : i \in {j \in 1..Len(text) : Kind(text[j]) = "J"}}

\* The JSON objects of a text, as dicts.
ObjectsOf(text) == {v[2] : v \in {x \in DocsOf(text) : Tag(x) = "obj"}}

\* The dict without its null-valued keys.
NonNullPart(d) == [k \in {x \in DOMAIN d : Tag(d[x]) # "null"} |-> d[k]]

IsEmptyValue(v) ==
    \/ Tag(v) = "str" /\ v[2] = ""
    \/ Tag(v) = "list" /\ Len(v[2]) = 0
    \/ Tag(v) = "obj" /\ DOMAIN v[2] = {}

\* The value has the semantic type FacetResponse declares for the key.
HasDeclaredType(k, v) ==
    CASE k \in StrFields -> Tag(v) = "str"
      [] k \in FloatFields -> Tag(v) = "num"
      [] k \in IntFields -> Tag(v) = "num" /\ v[2] % 10 = 0
      [] k \in BoolFields -> Tag(v) = "bool"
      [] k \in ListStrFields ->
            Tag(v) = "list" /\ \A i \in 1..Len(v[2]) : Tag(v[2][i]) = "str"
      [] k \in DictFloatFields ->
            Tag(v) = "obj" /\ \A x \in DOMAIN v[2] : Tag(v[2][x]) = "num"

\* C1: whenever the interpreter succeeds, by the strict layer or by the
\* fallback, no key of the returned facets mapping (nor of the facets of the
\* response built from it) has the value null.
C1_NoNullFacet ==
    ParseReturned =>
        /\ \A k \in DOMAIN parsed.facets : Tag(parsed.facets[k]) # "null"
        /\ response.status = 200
        /\ \A k \in DOMAIN response.facets : Tag(response.facets[k]) # "null"

\* C1 witness: the fallback returned the object of a completion that gave
\* one of its keys the value null.
C1_Witness ==
    /\ ParseReturned
    /\ parsed.layer = "fallback"
    /\ \E d \in ObjectsOf(completion.content) :
        /\ \E k \in DOMAIN d : d[k] = Null
        /\ DOMAIN parsed.facets # {}
        /\ DOMAIN parsed.facets # DOMAIN d

\* C2 (as claimed): whenever the interpreter returns, whichever layer gave
\* the result, every present key that FacetResponse declares has a value of
\* its declared type.
C2_TypedShape ==
    ParseReturned =>
        \A k \in DOMAIN parsed.facets \cap FacetResponseFields :
            HasDeclaredType(k, parsed.facets[k])

\* C3: the interpreter raises only when the strict layer and the fallback
\* have both failed on the content; the error then carries the content and
\* the reason of the strict layer's failure and becomes a 500 response; and a
\* content that holds no JSON object is never turned into a facets mapping.
C3_FailsOnlyWhenExhausted ==
    Interpreted =>
        /\ parsed.status = "raised" =>
            /\ ~parser_parse(completion.content).ok
            /\ ~fallback_parse(completion.content).ok
            /\ parsed.raw = completion.content
            /\ parsed.reason \in {"JSONDecodeError", "ValidationError"}
            /\ parsed.reason = parser_parse(completion.content).error
            /\ response.status = 500
            /\ response.detail.raw = completion.content
            /\ response.detail.reason = parsed.reason
        /\ ObjectsOf(completion.content) = {} =>
            parsed.status = "raised" /\ response.status = 500
        /\ parsed.status \in {"raised", "returned"}

\* C3 witness: "I cannot help with that." is refused with an error that
\* quotes it.
C3_Witness ==
    /\ Interpreted
    /\ completion.content = <<Prose>>
    /\ parsed.status = "raised"
    /\ parsed.raw = <<Prose>>
    /\ response.status = 500

\* A fenced block holding one JSON object, with prose (or nothing) before and
\* after it and nothing else.
IsFencedBlock(text, d) ==
    \E i \in 1..2 :
        /\ Len(text) \in {i + 2, i + 3}
        /\ Kind(text[i]) \in {"FJ", "F"}
        /\ text[i + 1] = Json(Obj(d))
        /\ text[i + 2] = Fence
        /\ \A j \in (1..Len(text)) \ {i, i + 1, i + 2} : IsProse(text[j])

\* A valid facets object: each key is a declared field whose value is null
\* or of the declared type.
IsFacetsObject(d) ==
    \A k \in DOMAIN d :
        k \in FacetResponseFields /\ (d[k] = Null \/ HasDeclaredType(k, d[k]))

\* C4: on prose around a fenced block (json-labeled or generic) whose content
\* is a valid facets object, the interpreter succeeds and returns the mapping
\* of the block: its keys and values, those set to null left out.
C4_FencedBlockRepair ==
    Interpreted =>
        \A d \in ObjectsOf(completion.content) :
            IsFencedBlock(completion.content, d) /\ IsFacetsObject(d) =>
                /\ parsed.status = "returned"
                /\ parsed.facets = NonNullPart(d)
                /\ response.status = 200
                /\ response.facets = NonNullPart(d)

\* C4 witness: prose, a json-labeled block holding {"brand": "Apple"}, prose;
\* the strict layer failed on the braces of the prose and the fallback
\* returned {"brand": "Apple"}.
C4_Witness ==
    /\ Interpreted
    /\ completion.content =
        <<ProseBraces, FenceJson,
          Json(Obj([k \in {"brand"} |-> Str("Apple")])), Fence, Prose>>
    /\ parsed.status = "returned"
    /\ parsed.layer = "fallback"
    /\ parsed.facets = [k \in {"brand"} |-> Str("Apple")]

\* C5 (as claimed): the returned mapping holds no key whose value is null or
\* empty (empty string, empty list, empty mapping).
C5_NoNullOrEmptyFacet ==
    ParseReturned =>
        \A k \in DOMAIN parsed.facets :
            Tag(parsed.facets[k]) # "null" /\ ~IsEmptyValue(parsed.facets[k])

\* C5 (amended): whichever layer succeeded, the keys whose value is null are
\* dropped and only those: the fallback returns the object it loaded without
\* its null-valued keys, the strict layer returns every declared key of the
\* object whose value is not null; a key whose value is an empty string, list
\* or mapping is kept.
C5_DropsNullKeepsEmpty ==
    ParseReturned =>
        \A d \in ObjectsOf(completion.content) :
            /\ \A k \in DOMAIN parsed.facets : Tag(parsed.facets[k]) # "null"
            /\ parsed.layer = "fallback" => parsed.facets = NonNullPart(d)
            /\ parsed.layer = "strict" =>
                DOMAIN parsed.facets = DOMAIN NonNullPart(d) \cap FacetResponseFields
            /\ \A k \in DOMAIN d \cap FacetResponseFields :
                IsEmptyValue(d[k]) => k \in DOMAIN parsed.facets

\* C5 witness: the strict layer dropped a null-valued key and kept a key
\* whose value is the empty list.
C5_Witness ==
    /\ ParseReturned
    /\ parsed.layer = "strict"
    /\ \E d \in ObjectsOf(completion.content) :
        DOMAIN d = {"brand", "network"} /\ d["brand"] = Null
    /\ parsed.facets = [k \in {"network"} |-> List(<<>>)]

\* The members of a list.
Members(q) == {q[i] : i \in 1..Len(q)}

\* C6: _detect_categories gives each of the four categories exactly when a
\* key of its indicator set is in the mapping, gives general exactly when no
\* indicator key is, and then general alone; it lists no category twice.
C6_CategoriesByIndicator ==
    (request.op = "parse" /\ request.include_metadata /\ response.status = 200) =>
        LET cats == Members(response.categories_detected)
            keys == DOMAIN response.facets
            indicators == mobile_fields \cup computing_fields
                            \cup appliance_fields \cup gaming_fields
        IN  /\ "mobile_electronics" \in cats <=> keys \cap mobile_fields # {}
            /\ "computing" \in cats <=> keys \cap computing_fields # {}
            /\ "home_appliances" \in cats <=> keys \cap appliance_fields # {}
            /\ "gaming" \in cats <=> keys \cap gaming_fields # {}
            /\ "general" \in cats <=> keys \cap indicators = {}
            /\ "general" \in cats => response.categories_detected = <<"general">>
            /\ cats \subseteq {"mobile_electronics", "computing",
                               "home_appliances", "gaming", "general"}
            /\ Cardinality(cats) = Len(response.categories_detected)

\* C6 witness: a mapping with a mobile key, a gaming key: two categories.
C6_Witness ==
    /\ request.op = "parse" /\ request.include_metadata /\ response.status = 200
    /\ DOMAIN response.facets = {"network", "controllers_number"}
    /\ response.categories_detected = <<"mobile_electronics", "gaming">>

\* Direct validation ran with validation enabled on a schema that loaded.
ValidatedAgainstSchema ==
    /\ request.op = "configure"
    /\ request.validate_schema
    /\ validation.file.state = "loaded"

\* The keys of the list that are not in the set, in the order of the list.
KeysOutside(keys, S) ==
    LET Outside(k) == k \notin S IN SelectSeq(keys, Outside)

\* C7: with validation enabled and a schema that loads, each key of the input
\* is classified once: valid exactly when the schema declares it, otherwise
\* invalid with an error message naming it; the two lists partition the keys.
C7_KeysClassified ==
    ValidatedAgainstSchema =>
        LET keys == request.facets.keys
            declared == all_valid_keys(validation.file.schema)
            valid == validation.valid_facets
            invalid == validation.invalid_facets
            errors == validation.validation_errors
        IN  /\ \A k \in Members(keys) :
                /\ k \in Members(valid) <=> k \in declared
                /\ k \in Members(invalid) <=> k \notin declared
                /\ k \notin declared => unknown_key_error(k) \in Members(errors)
            /\ Members(valid) \cup Members(invalid) = Members(keys)
            /\ Members(valid) \cap Members(invalid) = {}
            /\ Len(valid) + Len(invalid) = Len(keys)
            /\ Len(errors) = Len(invalid)
            /\ \A e \in Members(errors) : e.key \in Members(invalid)

\* C7 witness: schema {brand, model}, input {brand, color}: brand is valid,
\* color is invalid.
C7_Witness ==
    /\ ValidatedAgainstSchema
    /\ all_valid_keys(validation.file.schema) = {"brand", "model"}
    /\ request.facets.keys = <<"brand", "color">>
    /\ validation.valid_facets = <<"brand">>
    /\ validation.invalid_facets = <<"color">>

\* The input of direct validation has a key the loaded schema does not declare.
HasUnknownKey ==
    /\ ValidatedAgainstSchema
    /\ \E k \in Members(request.facets.keys) :
        k \notin all_valid_keys(validation.file.schema)

\* C8 (as claimed): when the input holds a key that is not in the schema,
\* direct validation still returns an outcome, with the valid keys, the
\* invalid keys and an error for each invalid key.
C8_UnknownKeyReturnsOutcome ==
    HasUnknownKey =>
        /\ response.status = 200
        /\ response.valid_facets = validation.valid_facets
        /\ response.invalid_facets = validation.invalid_facets
        /\ response.validation_errors = validation.validation_errors

\* C8 (amended): when the input holds a key that is not in the schema, the
\* request is refused with the 400 error "Invalid facet configuration"; its
\* detail lists the invalid keys in the order of the input and an error
\* naming each of them, and holds neither the valid keys nor the facets.
C8_UnknownKeyRejected ==
    HasUnknownKey =>
        LET unknown == KeysOutside(request.facets.keys,
                                   all_valid_keys(validation.file.schema))
        IN  /\ response.status = 400
            /\ DOMAIN response = {"status", "detail"}
            /\ DOMAIN response.detail =
                    {"error", "invalid_facets", "validation_errors"}
            /\ response.detail.error = "Invalid facet configuration"
            /\ response.detail.invalid_facets = unknown
            /\ response.detail.validation_errors =
                    [i \in 1..Len(unknown) |-> unknown_key_error(unknown[i])]

\* C8 witness: schema keys {brand, model, storage} and input
\* {brand: Apple, color: blue}: a 400 whose detail names color.
C8_Witness ==
    /\ HasUnknownKey
    /\ all_valid_keys(validation.file.schema) = {"brand", "model", "storage"}
    /\ request.facets.keys = <<"brand", "color">>
    /\ request.facets.vals["brand"] = Str("Apple")
    /\ request.facets.vals["color"] = Str("blue")
    /\ response.status = 400
    /\ response.detail.invalid_facets = <<"color">>
    /\ validation.valid_facets = <<"brand">>

C10_MissingSchemaDegrades ==
    (/\ request.op = "configure"
     /\ request.validate_schema
     /\ validation.file.state = "missing") =>
        /\ response.status = 200
        /\ response.success
        /\ response.valid_facets = <<>>
        /\ response.invalid_facets = <<>>
        /\ response.facets = request.facets
        /\ "validation_errors" \in DOMAIN response
        /\ [text |-> "Facets schema file not found"]
                \in Members(response.validation_errors)

\* C10 witness: two facets submitted while the schema file is missing.
C10_Witness ==
    /\ request.op = "configure"
    /\ request.validate_schema
    /\ validation.file.state = "missing"
    /\ Len(request.facets.keys) = 2
    /\ response.status = 200
    /\ Len(response.validation_errors) = 1

\* A batch is being served.
InBatch == request.op = "batch"

\* The pipeline of the i-th query of the batch raised.
ItemRaised(i) == items[i].parsed.status = "raised"

\* The entries of `results` so far: one for each query handled, in the order
\* of the input, each carrying its query; failed with the text of the error
\* exactly when the pipeline of that query raised, succeeded with the facets
\* the pipeline returned otherwise.
BatchResultsMatch ==
    InBatch =>
        /\ Len(results) = Len(items)
        /\ Len(results) <= Len(request.queries)
        /\ \A i \in 1..Len(results) :
            /\ results[i].query = request.queries[i]
            /\ results[i].success = ~ItemRaised(i)
            /\ ItemRaised(i) =>
                /\ DOMAIN results[i] = {"success", "query", "error"}
                /\ results[i].error.type = items[i].parsed.type
                /\ results[i].error.raw = items[i].parsed.raw
            /\ ~ItemRaised(i) => results[i].facets = items[i].parsed.facets
        /\ response # NoValue =>
            /\ response.status = 200
            /\ response.total = Len(request.queries)
            /\ Len(response.results) = Len(request.queries)
            /\ response.results = results

\* A turn of the loop appends one entry and leaves the earlier ones as they
\* were, whether the turn failed or not.
BatchTurnKeepsEarlier ==
    (InBatch /\ request' = request) =>
        \/ results' = results
        \/ /\ Len(results') = Len(results) + 1
           /\ SubSeq(results', 1, Len(results)) = results

\* C11: a batch of n queries ends with a response of exactly n results in the
\* order of the input, whatever queries fail; result i carries query i and is
\* marked failed, with the text of the error, exactly when the pipeline of
\* query i raised; a failure neither ends the loop nor changes another result.
C11_BatchReportsEachQuery ==
    /\ []BatchResultsMatch
    /\ [][BatchTurnKeepsEarlier]_vars
    /\ (InBatch ~> (InBatch /\ response # NoValue))

\* C11 witness: a batch of three queries whose second completion is prose
\* alone: three results, the second failed, the first and third succeeded.
C11_Witness ==
    /\ InBatch
    /\ response # NoValue
    /\ Len(request.queries) = 3
    /\ Len(response.results) = 3
    /\ items[2].completion = [status |-> "returned", content |-> <<Prose>>]
    /\ response.results[1].success
    /\ ~response.results[2].success
    /\ response.results[3].success

\* The outcome is the error `e` of the backend as it was raised: no facets,
\* no layer of the interpreter, no content quoted.
IsBackendError(p, e) ==
    /\ p.status = "raised"
    /\ p.type = e
    /\ p.reason = e
    /\ p.raw = <<>>
    /\ "facets" \notin DOMAIN p
    /\ "layer" \notin DOMAIN p

\* C12: parse_query calls the backend once for a query; when the call raises,
\* the error leaves parse_query as it was raised, after that one call, the
\* interpreter has not run and no facets are produced: the request ends in an
\* error that names the error of the backend, and in a batch the query is
\* reported failed with it.
C12_CompletionFailurePropagates ==
    /\ request.op = "parse" =>
        /\ calls = 1
        /\ completion.status = "raised" =>
            /\ IsBackendError(parsed, completion.type)
            /\ response.status = 500
            /\ response.detail.type = completion.type
            /\ "facets" \notin DOMAIN response
    /\ InBatch =>
        /\ calls = Len(items)
        /\ \A i \in 1..Len(items) :
            items[i].completion.status = "raised" =>
                /\ IsBackendError(items[i].parsed, items[i].completion.type)
                /\ ~results[i].success
                /\ results[i].error.type = items[i].completion.type
                /\ "facets" \notin DOMAIN results[i]

\* C12 witness: the backend refused the one call with a rate limit error and
\* the request ended in a 500 naming it.
C12_Witness ==
    /\ request.op = "parse"
    /\ calls = 1
    /\ completion = [status |-> "raised", type |-> "RateLimitError"]
    /\ parsed.status = "raised"
    /\ response.status = 500
    /\ response.detail.type = "RateLimitError"

\* The outcomes parse_query_with_metadata returned that the state holds: the
\* body of a parse response with metadata, the entries of a batch with
\* metadata that succeeded; each with the query it was asked for.
MetadataOutcomes ==
    (IF request.op = "parse" /\ request.include_metadata /\ response.status = 200
     THEN {[asked |-> request.query, outcome |-> response]} ELSE {})
    \cup
    (IF InBatch /\ request.include_metadata
     THEN {[asked |-> request.queries[i], outcome |-> results[i]] :
            i \in {j \in 1..Len(results) : results[j].success}}
     ELSE {})

\* C13: in every outcome parse_query_with_metadata returns, facet_count is
\* the number of keys of the returned facets mapping and query is the query
\* that was asked.
C13_FacetCountIsKeyCount ==
    \A m \in MetadataOutcomes :
        /\ m.outcome.facet_count = Cardinality(DOMAIN m.outcome.facets)
        /\ m.outcome.query = m.asked

\* C13 witness: an outcome of two facets, one of them an empty list.
C13_Witness ==
    /\ request.op = "parse" /\ request.include_metadata /\ response.status = 200
    /\ DOMAIN response.facets = {"brand", "network"}
    /\ response.facets["network"] = List(<<>>)
    /\ response.facet_count = 2
    /\ response.query = request.query

\* The entries of a batch with metadata that succeeded.
Succeeded == {i \in 1..Len(results) : results[i].success}

\* C14: the categories of an outcome depend on the keys of its facets only:
\* two outcomes of one batch whose facets have the same keys, from whatever
\* contents and with whatever values, have the same categories; an outcome
\* holds its categories in its own field next to the facets, and a key of
\* that name among the facets leaves them as the keys decide.
C14_CategoriesFromKeysOnly ==
    (InBatch /\ request.include_metadata) =>
        /\ \A i, j \in Succeeded :
            DOMAIN results[i].facets = DOMAIN results[j].facets =>
                results[i].categories_detected = results[j].categories_detected
        /\ \A i \in Succeeded :
            /\ DOMAIN results[i] =
                {"success", "query", "facets", "facet_count", "categories_detected"}
            /\ DOMAIN results[i].facets = {"categories_detected"} =>
                results[i].categories_detected = <<"general">>

\* C14 witness: two completions of a batch put a categories_detected key in
\* their object, one naming gaming and one computing; a third holds a
\* graphic_card.
C14_Witness ==
    /\ InBatch /\ request.include_metadata
    /\ Len(results) = 3
    /\ Succeeded = {1, 2, 3}
    /\ results[1].facets =
            [k \in {"categories_detected"} |-> List(<<Str("gaming")>>)]
    /\ results[2].facets =
            [k \in {"categories_detected"} |-> List(<<Str("computing")>>)]
    /\ results[1].categories_detected = results[2].categories_detected
    /\ results[3].categories_detected = <<"computing">>

\* The queries of the batch whose completion returned a content.
Answered == {i \in 1..Len(items) : items[i].completion.status = "returned"}

RECURSIVE ResultsAlone(_, _, _)
ResultsAlone(req, completions, n) ==
    IF n = 0 THEN <<>>
    ELSE batch_result(ResultsAlone(req, completions, n - 1), req.queries[n],
                      req.include_metadata, parse_query_outcome(completions[n]))

\* The response a request gives when it runs alone and is given the same
\* completions and the same schema file.
ResponseAlone(me) ==
    CASE me.req.op = "parse" ->
            parse_response(me.req.query, me.req.include_metadata,
                           parse_query_outcome(me.completions[1]))
      [] me.req.op = "batch" ->
            batch_response(me.req.queries,
                           ResultsAlone(me.req, me.completions, Len(me.req.queries)))
      [] me.req.op = "configure" ->
            configure_response(me.req.facets, me.req.validate_schema,
                validate_facets(me.req.facets, me.req.validate_schema, me.file))

\* What each request in flight holds is what it would hold alone.
AsIfAlone ==
    \A w \in Workers :
        workers[w] # Idle =>
            /\ workers[w].results =
                    ResultsAlone(workers[w].req, workers[w].completions,
                                 Len(workers[w].results))
            /\ workers[w].response # NoValue =>
                    workers[w].response = ResponseAlone(workers[w])

\* A step is the step of one request and leaves the other request, and all
\* that is not the locals of a request, as they were.
StepOfOne ==
    /\ \A v, w \in Workers :
        (workers'[v] # workers[v] /\ workers'[w] # workers[w]) => v = w
    /\ serial' = serial

\* C16: however the steps of two requests (single parse, parse with
\* metadata, batch, direct configuration) interleave, each request returns
\* what it would return alone on the same completions and schema file, and
\* no step of a request changes what the other holds.
C16_RequestsIndependent == []AsIfAlone /\ [][StepOfOne]_vars

\* C16 witness: both requests are between their call of the backend and its
\* interpretation, with different completions; the first is a batch that has
\* one result already.
C16_Witness ==
    /\ workers[1] # Idle /\ workers[2] # Idle
    /\ workers[1].req.op = "batch" /\ workers[2].req.op = "parse"
    /\ Len(workers[1].results) = 1
    /\ Len(workers[1].completions) = 2
    /\ workers[2].completions # <<>>
    /\ workers[1].completions[2] # workers[2].completions[1]
    /\ workers[2].response = NoValue

\* The text with the keys FacetResponse does not declare taken out of its
\* JSON object.
WithoutUnknownKeys(text) ==
    [i \in 1..Len(text) |->
        IF Kind(text[i]) = "J" /\ Tag(text[i][2]) = "obj"
        THEN LET d == text[i][2][2]
             IN  Json(Obj([k \in DOMAIN d \cap FacetResponseFields |-> d[k]]))
        ELSE text[i]]

\* The object of the completion holds a key FacetResponse does not declare.
HasUndeclaredKey ==
    /\ Interpreted
    /\ \E d \in ObjectsOf(completion.content) :
        DOMAIN d \ FacetResponseFields # {}

\* C17: a key of the model's object that is not a recognized facet changes
\* neither whether the interpreter succeeds nor the recognized facets it
\* returns: the outcome is that of the same text without the key, failure
\* for failure, and every facet returned for the text without the key is
\* returned with the same value, whichever layer handles the text.
C17_UnknownKeyTolerated ==
    HasUndeclaredKey =>
        LET without == interpret(WithoutUnknownKeys(completion.content))
        IN  /\ parsed.status = without.status
            /\ parsed.status = "returned" =>
                /\ parsed.layer = without.layer
                /\ \A k \in DOMAIN without.facets :
                    /\ k \in DOMAIN parsed.facets
                    /\ parsed.facets[k] = without.facets[k]

\* C17 witness: {"brand": "Apple", "foo": "x"} followed by prose: the strict
\* layer returns brand.
C17_Witness ==
    /\ HasUndeclaredKey
    /\ completion.content =
        <<Json(Obj([k \in {"brand", "foo"} |->
                        IF k = "brand" THEN Str("Apple") ELSE Str("x")])), Prose>>
    /\ parsed.status = "returned"
    /\ parsed.layer = "strict"
    /\ parsed.facets = [k \in {"brand"} |-> Str("Apple")]

\* C18: asked with metadata, a query fails exactly when parse_query fails on
\* it, with the failure parse_query raised; for every mapping parse_query
\* returns, the empty one included, the counting and the classification give
\* an outcome holding that mapping.
C18_MetadataAddsNoFailure ==
    (request.op = "parse" /\ request.include_metadata) =>
        /\ response.status = 500 <=> parsed.status = "raised"
        /\ parsed.status = "raised" =>
            /\ response.detail = error_text(parsed)
            /\ response.detail.type \in {"ValueError"} \cup CompletionErrors
        /\ parsed.status = "returned" =>
            /\ response.status = 200
            /\ response.facets = parsed.facets
            /\ {"facet_count", "categories_detected"} \subseteq DOMAIN response
            /\ Len(response.categories_detected) >= 1

\* C18 witness: parse_query returned the empty mapping and the outcome with
\* metadata counts no facet in the category general.
C18_Witness ==
    /\ request.op = "parse" /\ request.include_metadata
    /\ parsed.status = "returned"
    /\ parsed.facets = EmptyDict
    /\ response.status = 200
    /\ response.facet_count = 0
    /\ response.categories_detected = <<"general">>

\* Direct validation ran with validation enabled.
Validated == request.op = "configure" /\ request.validate_schema

\* The schema document that was loaded holds a definition without a 'key'.
HasKeylessDefinition ==
    /\ ValidatedAgainstSchema
    /\ validation.file.schema.has_facets
    /\ \E j \in 1..Len(validation.file.schema.facets) :
        ~validation.file.schema.facets[j].has_key

\* The entry direct validation reports when it could not load the schema.
SchemaLoadErrors ==
    {[text |-> "Facets schema file not found"], [text |-> "Schema validation error"]}

\* The keys of the definitions of the loaded schema that have a 'key'.
KeyedDefinitions ==
    IF validation.file.schema.has_facets
    THEN LET defs == validation.file.schema.facets
         IN  {defs[j].key : j \in {i \in 1..Len(defs) : defs[i].has_key}}
    ELSE {}

\* C19 (as claimed): a schema document holding a definition without a key
\* fails to load: validation reports a schema load error and uses none of
\* the definitions of the document.
C19_KeylessDefinitionFailsLoad ==
    HasKeylessDefinition =>
        /\ \E e \in Members(validation.validation_errors) : e \in SchemaLoadErrors
        /\ validation.valid_facets = <<>>
        /\ validation.invalid_facets = <<>>

\* C19 (amended): a schema document that is missing or cannot be read fails
\* to load, which direct validation reports as its one error entry, no key
\* being classified; a document that loads never gives a load error: a
\* definition without a key in it is passed over and declares nothing, and
\* the keys of the other definitions are the valid keys.
C19_KeylessDefinitionSkipped ==
    Validated =>
        /\ validation.file.state \in {"missing", "unreadable"} =>
            /\ Len(validation.validation_errors) = 1
            /\ validation.validation_errors[1] \in SchemaLoadErrors
            /\ validation.valid_facets = <<>>
            /\ validation.invalid_facets = <<>>
        /\ validation.file.state = "loaded" =>
            /\ \A e \in Members(validation.validation_errors) : e \notin SchemaLoadErrors
            /\ validation.invalid_facets = KeysOutside(request.facets.keys, KeyedDefinitions)
            /\ validation.valid_facets =
                    KeysOutside(request.facets.keys,
                                Members(request.facets.keys) \ KeyedDefinitions)

\* C19 witness: the schema holds a definition without a key and the
\* definition of brand; the input {brand, storage} is refused for storage
\* with brand found valid.
C19_Witness ==
    /\ HasKeylessDefinition
    /\ KeyedDefinitions = {"brand"}
    /\ request.facets.keys = <<"brand", "storage">>
    /\ validation.valid_facets = <<"brand">>
    /\ validation.invalid_facets = <<"storage">>
    /\ validation.validation_errors = <<unknown_key_error("storage")>>
    /\ response.status = 400

\* C20: with validate_schema false the schema file is not opened and the
\* request succeeds whatever the facets are: they are echoed, facet_count is
\* the number of input keys, the lists of valid and invalid keys are absent
\* and no validation error is reported.
C20_UnvalidatedAlwaysSucceeds ==
    (request.op = "configure" /\ ~request.validate_schema) =>
        /\ validation.file.state = "unread"
        /\ validation.valid_facets = <<>>
        /\ validation.invalid_facets = <<>>
        /\ validation.validation_errors = <<>>
        /\ response.status = 200
        /\ response.success
        /\ response.facets = request.facets
        /\ response.facet_count = Len(request.facets.keys)
        /\ DOMAIN response = {"status", "success", "facets", "facet_count"}

\* C20 witness: {brand, color} submitted without validation, color being a
\* key no schema declares: both are echoed.
C20_Witness ==
    /\ request.op = "configure"
    /\ ~request.validate_schema
    /\ request.facets.keys = <<"brand", "color">>
    /\ "color" \notin SchemaKeys
    /\ response.status = 200
    /\ response.facets.keys = <<"brand", "color">>
    /\ response.facet_count = 2

\* The tokens between the first fence of the kind and the fence that follows
\* it (the end of the text when none follows).
BlockContent(text, kind) ==
    LET open == CHOOSE i \in 1..Len(text) :
                    Kind(text[i]) = kind /\ \A j \in 1..(i - 1) : Kind(text[j]) # kind
        closes == {j \in (open + 1)..Len(text) : Kind(text[j]) \in {"F", "FJ"}}
        close == IF closes = {} THEN Len(text) + 1
                 ELSE CHOOSE j \in closes : \A m \in closes : j <= m
    IN  [i \in 1..(close - open - 1) |-> text[open + i]]

HasFence(text, kind) == \E i \in 1..Len(text) : Kind(text[i]) = kind

\* The tokens are one JSON object and nothing else.
IsOneObject(toks) == Len(toks) = 1 /\ Kind(toks[1]) = "J" /\ Tag(toks[1][2]) = "obj"

\* A generic fenced block of the text holds one JSON object and nothing else.
GenericBlockObjects(text) ==
    {text[i + 1][2][2] :
        i \in {j \in 1..(Len(text) - 1) :
                /\ text[j] = Fence
                /\ IsOneObject(<<text[j + 1]>>)
                /\ (j + 2 <= Len(text) => text[j + 2] = Fence)}}

\* The strict layer failed on a text whose json-labeled block does not hold
\* a JSON object while a generic block of the text does.
LabeledFailsGenericHolds ==
    /\ Interpreted
    /\ ~parser_parse(completion.content).ok
    /\ HasFence(completion.content, "FJ")
    /\ ~IsOneObject(BlockContent(completion.content, "FJ"))
    /\ GenericBlockObjects(completion.content) # {}

\* C21 (as claimed): when the content of the json-labeled block does not
\* parse, a generic fenced block of the same text is still attempted: the
\* interpreter returns the object that block holds.
C21_GenericTriedAfterLabeled ==
    LabeledFailsGenericHolds =>
        /\ parsed.status = "returned"
        /\ \E d \in GenericBlockObjects(completion.content) :
            parsed.facets = NonNullPart(d)

\* C21 (amended): the strict parse of the whole text comes first and its
\* success is final; only when it fails is the fallback run, once, on one
\* content: that of the json-labeled block if the text has one, else that of
\* the first generic block, else the whole text.  The object that content
\* holds is returned; when it holds none the interpreter gives up, and a
\* generic block is not attempted after a json-labeled block that failed.
C21_OneBlockTried ==
    Interpreted =>
        LET text == completion.content
            strict == parser_parse(text)
            chosen == IF HasFence(text, "FJ") THEN BlockContent(text, "FJ")
                      ELSE IF HasFence(text, "F") THEN BlockContent(text, "F")
                      ELSE text
        IN  /\ strict.ok =>
                /\ parsed.status = "returned"
                /\ parsed.layer = "strict"
                /\ parsed.facets = dict_exclude_none(strict.value)
            /\ (~strict.ok /\ IsOneObject(chosen)) =>
                /\ parsed.status = "returned"
                /\ parsed.layer = "fallback"
                /\ parsed.facets = NonNullPart(chosen[1][2][2])
            /\ (~strict.ok /\ ~IsOneObject(chosen)) => parsed.status = "raised"

\* C21 witness: a generic block holding {"brand": "Apple"}, then a
\* json-labeled block holding prose with braces: the interpreter raises.
C21_Witness ==
    /\ LabeledFailsGenericHolds
    /\ completion.content =
        <<Fence, Json(Obj([k \in {"brand"} |-> Str("Apple")])), Fence,
          FenceJson, ProseBraces>>
    /\ parsed.status = "raised"
    /\ response.status = 500

\* The handler of the request opened the schema file.
SourceRead ==
    /\ request.op \in {"configure", "schema"}
    /\ validation.file.state # "unread"

\* C22 (as claimed): the schema is loaded before the first request and no
\* request opens its source again: every request sees the schema that was
\* loaded at the start.
C22_SchemaReadOnce ==
    /\ request # Idle => facets_schema.status = "loaded"
    /\ ~SourceRead
    /\ (request.op = "schema" /\ response.status = 200) =>
            response.schema = facets_schema.schema

\* What the amended C22 says of a state.
ParserSchemaFixed ==
    /\ request # Idle => facets_schema.status = "loaded"
    /\ prompt_schema # NoValue => prompt_schema = facets_schema.schema
    /\ request.op \in {"parse", "batch"} =>
        /\ validation = NoValue
        /\ calls >= 1 => prompt_schema = facets_schema.schema
    /\ request.op = "configure" => (SourceRead <=> request.validate_schema)
    /\ request.op = "schema" =>
        /\ SourceRead
        /\ validation.file.state = "loaded" =>
            response.status = 200 /\ response.schema = validation.file.schema
        /\ validation.file.state # "loaded" => response.status = 500

\* C22 (amended): the parser loads its schema once, before the first request
\* is served, and no request loads it again or writes to it: every parse and
\* every query of a batch puts that schema in its prompt and opens no file.
\* Direct validation with validate_schema true and schema introspection open
\* the schema file again on each request and see the document as it is then.
C22_ParserSchemaLoadedOnce ==
    /\ []ParserSchemaFixed
    /\ [][facets_schema.status = "loaded" => facets_schema' = facets_schema]_vars

\* C22 witness: the service started on one document; a later request for the
\* schema is answered with another, read from the file as it is by then.
C22_Witness ==
    /\ request.op = "schema"
    /\ response.status = 200
    /\ facets_schema.status = "loaded"
    /\ response.schema # facets_schema.schema
    /\ response.schema = validation.file.schema

\* The outcome p of parse_query on the text: a mapping of the strict layer
\* has declared keys only; a mapping with an undeclared key comes from the
\* fallback layer, on a text the strict layer failed on.
KeysDeclaredUnlessFallback(text, p) ==
    p.status = "returned" =>
        /\ p.layer = "strict" => DOMAIN p.facets \subseteq FacetResponseFields
        /\ DOMAIN p.facets \ FacetResponseFields # {} =>
            /\ p.layer = "fallback"
            /\ ~parser_parse(text).ok

\* C23: when the strict layer succeeds every key of the returned mapping is
\* a field FacetResponse declares, so a key the completion holds outside
\* that set is absent from the result; an undeclared key is in the result of
\* parse_query only when the strict layer failed and the fallback layer
\* produced the result. It holds for a single parse and for each query of a
\* batch.
C23_StrictKeysDeclared ==
    /\ Interpreted => KeysDeclaredUnlessFallback(completion.content, parsed)
    /\ \A i \in 1..Len(items) :
        items[i].completion.status = "returned" =>
            KeysDeclaredUnlessFallback(items[i].completion.content, items[i].parsed)

\* C23 witness: {"webcam": true, "foo": "x"} alone: the strict layer returns
\* webcam without foo.
C23_Witness ==
    /\ Interpreted
    /\ completion.content =
        <<Json(Obj([k \in {"webcam", "foo"} |->
                        IF k = "webcam" THEN Bool(TRUE) ELSE Str("x")]))>>
    /\ parsed.status = "returned"
    /\ parsed.layer = "strict"
    /\ parsed.facets = [k \in {"webcam"} |-> Bool(TRUE)]
    /\ response.status = 200

\* The strict layer failed on the text and what the fallback hands to
\* json.loads is a JSON document that is no object.
FallbackLoadsNonObject(text) ==
    /\ ~parser_parse(text).ok
    /\ json_loads(fenced_content(text)) # Invalid
    /\ Tag(json_loads(fenced_content(text))) # "obj"

\* C24: parse_query returns a mapping from keys to values or raises: when the
\* strict layer fails and the text handed to the fallback is valid JSON that
\* is no object (an array, a string, a number, a boolean or null), the call
\* fails with the interpretation error and the caller gets a 500; a mapping
\* that is returned has the keys of a JSON object of the completion.
C24_NonObjectIsFailure ==
    Interpreted =>
        /\ FallbackLoadsNonObject(completion.content) =>
            /\ parsed.status = "raised"
            /\ parsed.type = "ValueError"
            /\ parsed.raw = completion.content
            /\ response.status = 500
        /\ parsed.status = "returned" =>
            \E d \in ObjectsOf(completion.content) :
                DOMAIN parsed.facets \subseteq DOMAIN d

\* C24 witness: an empty array in a json-labeled block after a sentence:
\* the fallback loads [] and the call fails.
C24_Witness ==
    /\ Interpreted
    /\ completion.content = <<Prose, FenceJson, Json(List(<<>>)), Fence>>
    /\ FallbackLoadsNonObject(completion.content)
    /\ parsed.status = "raised"
    /\ parsed.type = "ValueError"
    /\ response.status = 500

====
